---- MODULE Spec2Model ----
(***************************************************************************)
(* Model of pyalgotrade.coinbase.client: the Client (session controller    *)
(* and dispatch loop), the WebSocketClientThread / WebSocketClient worker   *)
(* and its queue, and the L3 order book the Client keeps in sync.           *)
(*                                                                          *)
(* Two kinds of thread take steps: the caller's thread, which runs          *)
(* start() and dispatch() one at a time (pc says where it is), and the      *)
(* worker threads.  stop() may be called from any thread at any time.       *)
(***************************************************************************)
EXTENDS Integers, Sequences, FiniteSets, TLC

\* ---- bounds of the model -------------------------------------------------
MaxWorkers == 3      \* WebSocketClientThread objects ever created
MaxQueue   == 2      \* events a queue may hold once a feed message is decoded
MaxEvents  == 2      \* order messages decoded by all workers together
MaxOrderId == 1      \* order ids are 1..MaxOrderId
MaxConnections == 2  \* workers whose connection opens

\* highest exchange sequence number: room for one lost message
MaxSeq == MaxEvents + 1

\* ---- WebSocketClient.Event ----------------------------------------------
ERROR           == 1
CONNECTED       == 2
DISCONNECTED    == 3
ORDER_MATCH     == 4
ORDER_RECEIVED  == 5
ORDER_OPEN      == 6
ORDER_DONE      == 7
ORDER_CHANGE    == 8
SEQ_NR_MISMATCH == 9

OrderKinds == {ORDER_MATCH, ORDER_RECEIVED, ORDER_OPEN, ORDER_DONE, ORDER_CHANGE}

Workers  == 1..MaxWorkers
OrderIds == 1..MaxOrderId

\* the id of a taker order: received and done, it never rests in a book
TakerId == MaxOrderId + 1

VARIABLES
    stopped,         \* Client.__stopped
    wsClientThread,  \* Client.__wsClientThread: 0 is None, else a worker
    l3OBookSync,     \* Client.__l3OBookSync: loaded = FALSE is None
    wstate,          \* per worker: the thread and its connection
    queue,           \* per worker: WebSocketClient.__queue
    wsLastSeq,       \* per worker: last sequence number decoded, 0 is None
    exSeq,           \* the exchange: sequence number of its latest message
    pc,              \* where the caller's thread is
    retry,           \* the retry argument of the running __connectWS
    caller,          \* who called the running __connectWS
    iter,            \* workers launched by the running __connectWS
    nPushed,         \* order events pushed so far; the n-th has eid n
    applied,         \* eids handed to the book, in the order of the calls
    startResult,     \* how start() ended
    conn,            \* snapshot fetches and loads made for the current worker
    hStopped,        \* __stopped when the running __onDisconnected began
    last             \* what the last step of the caller or of stop() did

vars == <<stopped, wsClientThread, l3OBookSync, wstate, queue,
          wsLastSeq, exSeq, pc, retry, caller, iter, nPushed, applied,
          startResult, conn, hStopped, last>>

\* ---- events ---------------------------------------------------------------
Event(kind, oid, seq, eid) == [kind |-> kind, oid |-> oid, seq |-> seq, eid |-> eid]

\* Queue.put
put(q, ev) == Append(q, ev)

\* a get that takes the newest element
getNewest(q) == q[Len(q)]

\* Queue.get: the element returned and the queue left behind
getHead(q) == Head(q)

getRest(q) == Tail(q)

\* ---- the worker thread ----------------------------------------------------
\* A worker is "unborn" until its thread is created, then "connecting";
\* "stopping" is connecting after stopClient() was called; "connected" once
\* the connection opened; "closing" is connected after stopClient() was
\* called; "closed" once the connection closed and run() has yet to return;
\* "dead" when the thread has ended, "refused" when it ended without ever
\* connecting.  MaxQueue holds back the decoding of feed messages only: a
\* connection opens and closes whatever waits in the queue.

\* threading.Thread.is_alive
is_alive(w) == wstate[w] \in {"connecting", "stopping", "connected", "closing", "closed"}

\* WebSocketClientThread.isConnected
isConnected(w) == wstate[w] \in {"connected", "closing"}

\* WebSocketClient.stopClient: the state of the worker it is called on
stopClient(st) ==
    CASE st = "connecting" -> "stopping"
      [] st = "connected" -> "closing"
      [] OTHER -> st

\* what the last step did; reset by every step of a worker
NoEvent == Event(0, 0, 0, 0)

NoBook == [loaded |-> FALSE, sequence |-> 0, orders |-> {}]

NoSnapshot == [sequence |-> 0, orders |-> {}]

\* prior is the book a dispatch() that reached the book found, snapshot the
\* level 3 book its getOrderBook returned
NoLast == [op |-> "none", ret |-> "none", trace |-> <<>>, ev |-> NoEvent,
           prior |-> NoBook, snapshot |-> NoSnapshot]

Op(op, ret, trace, ev) == [NoLast EXCEPT !.op = op, !.ret = ret, !.trace = trace, !.ev = ev]

\* fetches and loads counted until the first order event of the connection
\* is handed to the book
NoConn == [fetch |-> 0, load |-> 0, applied |-> FALSE]

Init ==
    /\ stopped = FALSE
    /\ wsClientThread = 0
    /\ l3OBookSync = NoBook
    /\ wstate = [w \in Workers |-> "unborn"]
    /\ queue = [w \in Workers |-> <<>>]
    /\ wsLastSeq = [w \in Workers |-> 0]
    /\ exSeq = 0
    /\ pc = "idle"
    /\ retry = FALSE
    /\ caller = "none"
    /\ iter = 0
    /\ nPushed = 0
    /\ applied = <<>>
    /\ startResult = "none"
    /\ conn = NoConn
    /\ hStopped = FALSE
    /\ last = NoLast

\* a worker callback that drops the Client's book
WorkerFrameDropsBook ==
    /\ UNCHANGED <<stopped, wsClientThread, pc, retry, caller,
                   iter, applied, startResult, conn, hStopped>>
    /\ l3OBookSync' = NoBook
    /\ last' = NoLast

\* a step of worker w leaves the Client's own fields alone
WorkerFrame ==
    /\ UNCHANGED <<stopped, wsClientThread, l3OBookSync, pc, retry, caller,
                   iter, applied, startResult, conn, hStopped>>
    /\ last' = NoLast

\* WebSocketClient.onOpened
onOpened(w) ==
    /\ wstate[w] \in {"connecting", "stopping"}
    /\ Cardinality({v \in Workers : wstate[v] \in {"connected", "closing", "closed", "dead"}})
          < MaxConnections
    /\ wstate' = [wstate EXCEPT ![w] = IF @ = "stopping" THEN "closing" ELSE "connected"]
    /\ queue' = [queue EXCEPT ![w] = put(@, Event(CONNECTED, 0, 0, 0))]
    /\ UNCHANGED <<wsLastSeq, exSeq, nPushed>>
    /\ WorkerFrame

\* WebSocketClient.onConnectionRefused, after which run() returns
onConnectionRefused(w) ==
    /\ wstate[w] \in {"connecting", "stopping"}
    /\ wstate' = [wstate EXCEPT ![w] = "refused"]
    /\ UNCHANGED <<queue, wsLastSeq, exSeq, nPushed>>
    /\ WorkerFrame

\* WebSocketClient.onClosed
onClosed(w) ==
    /\ wstate[w] \in {"connected", "closing"}
    /\ wstate' = [wstate EXCEPT ![w] = "closed"]
    /\ queue' = [queue EXCEPT ![w] = put(@, Event(DISCONNECTED, 0, 0, 0))]
    /\ wsLastSeq' = [wsLastSeq EXCEPT ![w] = 0]
    /\ UNCHANGED <<exSeq, nPushed>>
    /\ WorkerFrame

\* WebSocketClient.onDisconnectionDetected
onDisconnectionDetected(w) ==
    /\ wstate[w] = "connected"
    /\ wstate' = [wstate EXCEPT ![w] = stopClient(@)]
    /\ queue' = [queue EXCEPT ![w] = put(@, Event(DISCONNECTED, 0, 0, 0))]
    /\ UNCHANGED <<wsLastSeq, exSeq, nPushed>>
    /\ WorkerFrame

\* WebSocketClientThread.run returns
runReturns(w) ==
    /\ wstate[w] = "closed"
    /\ wstate' = [wstate EXCEPT ![w] = "dead"]
    /\ UNCHANGED <<queue, wsLastSeq, exSeq, nPushed>>
    /\ WorkerFrame

\* WebSocketClient.onError
onError(w) ==
    /\ wstate[w] = "connected"
    /\ Len(queue[w]) < MaxQueue
    /\ queue' = [queue EXCEPT ![w] = put(@, Event(ERROR, 0, 0, 0))]
    /\ UNCHANGED <<wstate, wsLastSeq, exSeq, nPushed>>
    /\ WorkerFrame

\* WebSocketClient.onSequenceMismatch
onSequenceMismatch(q, currentSequence) ==
    put(q, Event(SEQ_NR_MISMATCH, 0, currentSequence, 0))

\* WebSocketClient.onOrderReceived, onOrderOpen, onOrderDone, onOrderMatch,
\* onOrderChange
onOrder(q, kind, oid, seq, eid) == put(q, Event(kind, oid, seq, eid))

\* wsclient: the message's sequence number does not follow the last one
sequenceJumped(w, seq) == wsLastSeq[w] # 0 /\ seq # wsLastSeq[w] + 1

\* sequence numbers the next message of the feed can carry: the next one,
\* the one after a lost message, or the latest one delivered again
FeedSequences == {s \in {exSeq, exSeq + 1, exSeq + 2} : s >= 1 /\ s <= MaxSeq}

\* the order messages the feed sends
FeedMessages ==
    {[kind |-> kind, oid |-> oid] : kind \in OrderKinds, oid \in OrderIds}
    \cup {[kind |-> kind, oid |-> TakerId] : kind \in {ORDER_RECEIVED, ORDER_DONE}}

\* the worker decodes one order message of the feed
onOrderMessage(w, kind, oid, seq) ==
    /\ wstate[w] = "connected"
    /\ seq \in FeedSequences
    /\ nPushed < MaxEvents
    /\ LET q1 == IF sequenceJumped(w, seq)
                 THEN onSequenceMismatch(queue[w], seq)
                 ELSE queue[w]
           q2 == onOrder(q1, kind, oid, seq, nPushed + 1)
       IN  /\ Len(q2) <= MaxQueue
           /\ queue' = [queue EXCEPT ![w] = q2]
    /\ wsLastSeq' = [wsLastSeq EXCEPT ![w] = seq]
    /\ exSeq' = IF seq > exSeq THEN seq ELSE exSeq
    /\ nPushed' = nPushed + 1
    /\ UNCHANGED wstate
    /\ WorkerFrame

\* ---- the order book (obooksync.L3OrderBookSync) ---------------------------
\* a load that merges the snapshot into the book the Client holds
loadSnapshotMerges(snapshot) ==
    [loaded |-> TRUE, sequence |-> snapshot.sequence,
     orders |-> snapshot.orders \cup l3OBookSync.orders]

\* L3OrderBookSync(obook)
loadSnapshot(snapshot) ==
    [loaded |-> TRUE, sequence |-> snapshot.sequence, orders |-> snapshot.orders]

\* a check that lets the book's own sequence number through
isNewOrSame(book, ev) == ev.seq >= book.sequence

\* the event is newer than everything the book holds
isNew(book, ev) == ev.seq > book.sequence

\* the resting orders after the event, for an event that is applied: an
\* open order rests, a done or matched order leaves, a changed order stays
ordersAfter(orders, ev) ==
    CASE ev.kind = ORDER_OPEN -> orders \cup {ev.oid}
      [] ev.kind = ORDER_DONE -> orders \ {ev.oid}
      [] ev.kind = ORDER_MATCH -> orders \ {ev.oid}
      [] OTHER -> orders

\* a book that counts every newer done, match or change event as a change
updatedUnknownToo(book, ev) ==
    /\ isNew(book, ev)
    /\ ev.kind \in {ORDER_OPEN, ORDER_DONE, ORDER_MATCH, ORDER_CHANGE}

\* L3OrderBookSync.onOrderMatch, onOrderReceived, onOrderOpen, onOrderDone,
\* onOrderChange: whether the book changes
updated(book, ev) ==
    /\ isNew(book, ev)
    /\ \/ ev.kind = ORDER_OPEN
       \/ ev.kind \in {ORDER_DONE, ORDER_MATCH, ORDER_CHANGE} /\ ev.oid \in book.orders

\* ... and the book they leave
applyEvent(book, ev) ==
    IF updated(book, ev)
    THEN [book EXCEPT !.sequence = ev.seq, !.orders = ordersAfter(@, ev)]
    ELSE book

\* ---- httpclient.HTTPClient.getOrderBook ----------------------------------
\* the level 3 books the REST API can answer with
Snapshots ==
    {[sequence |-> s, orders |-> o] :
        s \in {exSeq},
        o \in SUBSET OrderIds}

\* the result of getOrderBook: a snapshot, or an HTTP or network error
FetchOutcomes == {[ok |-> TRUE, snapshot |-> sn] : sn \in Snapshots}
                 \cup {[ok |-> FALSE, snapshot |-> NoSnapshot]}

\* ---- Client ---------------------------------------------------------------
workerFields == <<wstate, queue, wsLastSeq, exSeq, nPushed>>

\* the worker the next WebSocketClientThread(...) creates
newThread == Cardinality({w \in Workers : wstate[w] # "unborn"}) + 1

count(n) == IF n < 2 THEN n + 1 ELSE n

\* a refreshOrderBook that installs whatever the fetch left behind
refreshOrderBookPartial(book, outcome) == loadSnapshot(outcome.snapshot)

\* Client.refreshOrderBook: the book it leaves
refreshOrderBook(book, outcome) ==
    IF outcome.ok THEN loadSnapshot(outcome.snapshot) ELSE book

connAfterRefresh(outcome) ==
    IF conn.applied THEN conn
    ELSE [conn EXCEPT !.fetch = count(@),
                      !.load = IF outcome.ok THEN count(@) ELSE @]

refreshTrace(outcome) == IF outcome.ok THEN <<"fetch", "load">> ELSE <<"fetch", "raise">>

refreshRet(outcome) == IF outcome.ok THEN "true" ELSE "raised"

\* a dispatch that sets ret before it reads the queue
dispatchEmptyTrue ==
    /\ pc = "idle"
    /\ wsClientThread # 0
    /\ queue[wsClientThread] = <<>>
    /\ last' = Op("dispatch", "true", <<>>, NoEvent)
    /\ UNCHANGED <<stopped, wsClientThread, l3OBookSync, pc, retry, caller, iter,
                   applied, startResult, conn, hStopped>>
    /\ UNCHANGED <<wstate, queue, wsLastSeq, exSeq, nPushed>>

\* Client.dispatch: the queue is empty for QUEUE_TIMEOUT.  (dispatch() is
\* called once start() has created a worker: before that there is no queue.)
dispatchEmpty ==
    /\ pc = "idle"
    /\ wsClientThread # 0
    /\ queue[wsClientThread] = <<>>
    /\ last' = Op("dispatch", "false", <<>>, NoEvent)
    /\ UNCHANGED <<stopped, wsClientThread, l3OBookSync, pc, retry, caller, iter,
                   applied, startResult, conn, hStopped>>
    /\ UNCHANGED workerFields

\* a dispatch that takes ev from the queue of any worker that has one waiting
dequeueAny(ev) ==
    /\ pc = "idle"
    /\ wsClientThread # 0
    /\ \E w \in Workers :
          /\ queue[w] # <<>>
          /\ ev = getHead(queue[w])
          /\ queue' = [queue EXCEPT ![w] = getRest(@)]
    /\ UNCHANGED <<wstate, wsLastSeq, exSeq, nPushed>>

\* Client.dispatch takes ev from the queue of the current worker
dequeue(ev) ==
    /\ pc = "idle"
    /\ wsClientThread # 0
    /\ queue[wsClientThread] # <<>>
    /\ ev = getHead(queue[wsClientThread])
    /\ queue' = [queue EXCEPT ![wsClientThread] = getRest(@)]
    /\ UNCHANGED <<wstate, wsLastSeq, exSeq, nPushed>>

\* Client.dispatch, CONNECTED: __onConnected
dispatchConnected ==
    \E ev \in {Event(CONNECTED, 0, 0, 0)}, outcome \in FetchOutcomes :
        /\ dequeue(ev)
        /\ l3OBookSync' = refreshOrderBook(l3OBookSync, outcome)
        /\ conn' = connAfterRefresh(outcome)
        /\ last' = [Op("dispatch", refreshRet(outcome), refreshTrace(outcome), ev)
                       EXCEPT !.prior = l3OBookSync, !.snapshot = outcome.snapshot]
        /\ UNCHANGED <<stopped, wsClientThread, pc, retry, caller, iter, applied,
                       startResult, hStopped>>

\* an __onSeqNrMismatch that also stops the worker, as for a lost connection
dispatchSeqNrMismatchStops ==
    \E s \in 1..MaxSeq, outcome \in FetchOutcomes :
        LET ev == Event(SEQ_NR_MISMATCH, 0, s, 0) IN
        /\ pc = "idle"
        /\ wsClientThread # 0
        /\ queue[wsClientThread] # <<>>
        /\ ev = getHead(queue[wsClientThread])
        /\ queue' = [queue EXCEPT ![wsClientThread] = getRest(@)]
        /\ wstate' = [wstate EXCEPT ![wsClientThread] = stopClient(@)]
        /\ l3OBookSync' = refreshOrderBook(l3OBookSync, outcome)
        /\ conn' = connAfterRefresh(outcome)
        /\ last' = [Op("dispatch", refreshRet(outcome), refreshTrace(outcome), ev)
                       EXCEPT !.prior = l3OBookSync, !.snapshot = outcome.snapshot]
        /\ UNCHANGED <<stopped, wsClientThread, pc, retry, caller, iter, applied,
                       startResult, hStopped, wsLastSeq, exSeq, nPushed>>

\* Client.dispatch, SEQ_NR_MISMATCH: __onSeqNrMismatch
dispatchSeqNrMismatch ==
    \E s \in 1..MaxSeq, outcome \in FetchOutcomes :
        LET ev == Event(SEQ_NR_MISMATCH, 0, s, 0) IN
        /\ dequeue(ev)
        /\ l3OBookSync' = refreshOrderBook(l3OBookSync, outcome)
        /\ conn' = connAfterRefresh(outcome)
        /\ last' = [Op("dispatch", refreshRet(outcome), refreshTrace(outcome), ev)
                       EXCEPT !.prior = l3OBookSync, !.snapshot = outcome.snapshot]
        /\ UNCHANGED <<stopped, wsClientThread, pc, retry, caller, iter, applied,
                       startResult, hStopped>>

\* Client.__onOrderEvent: what it does, step by step
onOrderEventTrace(book, ev) ==
    IF ~book.loaded THEN <<"orderEvent", "raise">>
    ELSE IF updated(book, ev) THEN <<"orderEvent", "apply", "bookEvent">>
    ELSE <<"orderEvent", "apply">>

\* Client.dispatch, an order event: __onOrderEvent
dispatchOrderEvent ==
    \E m \in FeedMessages, s \in 1..MaxSeq, eid \in 1..MaxEvents :
        LET ev == Event(m.kind, m.oid, s, eid) IN
        /\ dequeue(ev)
        /\ IF l3OBookSync.loaded
           THEN /\ l3OBookSync' = applyEvent(l3OBookSync, ev)
                /\ applied' = Append(applied, eid)
                /\ conn' = [conn EXCEPT !.applied = TRUE]
           ELSE UNCHANGED <<l3OBookSync, applied, conn>>
        /\ last' = [Op("dispatch", IF l3OBookSync.loaded THEN "true" ELSE "raised",
                          onOrderEventTrace(l3OBookSync, ev), ev)
                       EXCEPT !.prior = l3OBookSync]
        /\ UNCHANGED <<stopped, wsClientThread, pc, retry, caller, iter,
                       startResult, hStopped>>

\* a dispatch that takes an event without a handler for fatal and stops
dispatchInvalidStops ==
    /\ dequeue(Event(ERROR, 0, 0, 0))
    /\ stopped' = TRUE
    /\ last' = Op("dispatch", "false", <<>>, Event(ERROR, 0, 0, 0))
    /\ UNCHANGED <<wsClientThread, l3OBookSync, pc, retry, caller, iter,
                   applied, startResult, conn, hStopped>>

\* Client.dispatch, any other event: logged, ret = False
dispatchInvalid ==
    /\ dequeue(Event(ERROR, 0, 0, 0))
    /\ last' = Op("dispatch", "false", <<>>, Event(ERROR, 0, 0, 0))
    /\ UNCHANGED <<stopped, wsClientThread, l3OBookSync, pc, retry, caller, iter,
                   applied, startResult, conn, hStopped>>

\* Client.dispatch, DISCONNECTED: __onDisconnected begins and joins the worker
dispatchDisconnected ==
    /\ dequeue(Event(DISCONNECTED, 0, 0, 0))
    /\ pc' = "join"
    /\ hStopped' = stopped
    /\ last' = Op("dispatch", "pending", <<>>, Event(DISCONNECTED, 0, 0, 0))
    /\ UNCHANGED <<stopped, wsClientThread, l3OBookSync, retry, caller, iter,
                   applied, startResult, conn>>

\* an __onDisconnected that does not join the worker
joinSkipped ==
    /\ pc = "join"
    /\ pc' = "joined"
    /\ last' = Op("join", "pending", <<>>, NoEvent)
    /\ UNCHANGED <<stopped, wsClientThread, l3OBookSync, retry, caller, iter,
                   applied, startResult, conn, hStopped>>
    /\ UNCHANGED <<wstate, queue, wsLastSeq, exSeq, nPushed>>

\* Client.__onDisconnected: wsClientThread.join() returns
joinReturns ==
    /\ pc = "join"
    /\ ~is_alive(wsClientThread)
    /\ pc' = "joined"
    /\ last' = Op("join", "pending", <<>>, NoEvent)
    /\ UNCHANGED <<stopped, wsClientThread, l3OBookSync, retry, caller, iter,
                   applied, startResult, conn, hStopped>>
    /\ UNCHANGED workerFields

\* an __onDisconnected that reconnects whether or not __stopped is set
onDisconnectedReconnects ==
    /\ pc = "joined"
    /\ pc' = "launch"
    /\ retry' = TRUE
    /\ caller' = "dispatch"
    /\ iter' = 0
    /\ last' = Op("connectWS", "pending", <<>>, NoEvent)
    /\ UNCHANGED <<stopped, wsClientThread, l3OBookSync, applied, startResult, conn,
                   hStopped>>
    /\ UNCHANGED <<wstate, queue, wsLastSeq, exSeq, nPushed>>

\* Client.__onDisconnected: if not self.__stopped: self.__connectWS(True)
onDisconnectedCheck ==
    /\ pc = "joined"
    /\ IF stopped
       THEN /\ pc' = "idle"
            /\ hStopped' = FALSE
            /\ last' = Op("return", "true", <<>>, Event(DISCONNECTED, 0, 0, 0))
            /\ UNCHANGED <<retry, caller, iter>>
       ELSE /\ pc' = "launch"
            /\ retry' = TRUE
            /\ caller' = "dispatch"
            /\ iter' = 0
            /\ last' = Op("connectWS", "pending", <<>>, NoEvent)
            /\ UNCHANGED hStopped
    /\ UNCHANGED <<stopped, wsClientThread, l3OBookSync, applied, startResult, conn>>
    /\ UNCHANGED workerFields

\* Client.start: self.__connectWS(False)
start ==
    /\ pc = "idle"
    /\ wsClientThread = 0
    /\ startResult = "none"
    /\ pc' = "launch"
    /\ retry' = FALSE
    /\ caller' = "start"
    /\ iter' = 0
    /\ last' = Op("start", "pending", <<>>, NoEvent)
    /\ UNCHANGED <<stopped, wsClientThread, l3OBookSync, applied, startResult, conn,
                   hStopped>>
    /\ UNCHANGED workerFields

\* Client.__connectWS: a new WebSocketClientThread is created and started
connectWSLaunch ==
    /\ pc = "launch"
    /\ newThread <= MaxWorkers
    /\ wsClientThread' = newThread
    /\ wstate' = [wstate EXCEPT ![newThread] = "connecting"]
    /\ iter' = iter + 1
    /\ conn' = NoConn
    /\ pc' = "wait"
    /\ last' = Op("launch", "pending", <<>>, NoEvent)
    /\ UNCHANGED <<stopped, l3OBookSync, retry, caller, applied, startResult, hStopped>>
    /\ UNCHANGED <<queue, wsLastSeq, exSeq, nPushed>>

\* Client.__connectWS: the loop that waits while the thread is alive and
\* not connected ends
connectWSWaited ==
    /\ pc = "wait"
    /\ ~(is_alive(wsClientThread) /\ ~isConnected(wsClientThread))
    /\ pc' = "waited"
    /\ last' = Op("waited", "pending", <<>>, NoEvent)
    /\ UNCHANGED <<stopped, wsClientThread, l3OBookSync, retry, caller, iter,
                   applied, startResult, conn, hStopped>>
    /\ UNCHANGED workerFields

\* a loop that ends only when the worker is connected
connectWSBreaksConnected == isConnected(wsClientThread)

\* Client.__connectWS: if isConnected() or not retry: break
connectWSBreaks == isConnected(wsClientThread) \/ ~retry

connectWSDecide ==
    /\ pc = "waited"
    /\ IF connectWSBreaks
       THEN IF caller = "start"
            THEN /\ pc' = "started"
                 /\ last' = Op("connectWS", "pending", <<>>, NoEvent)
                 /\ UNCHANGED hStopped
            ELSE /\ pc' = "idle"
                 /\ hStopped' = FALSE
                 /\ last' = Op("return", "true", <<>>, Event(DISCONNECTED, 0, 0, 0))
       ELSE /\ pc' = "launch"
            /\ last' = Op("connectWS", "pending", <<>>, NoEvent)
            /\ UNCHANGED hStopped
    /\ UNCHANGED <<stopped, wsClientThread, l3OBookSync, retry, caller, iter,
                   applied, startResult, conn>>
    /\ UNCHANGED workerFields

\* Client.start: if not isConnected(): raise Exception(...)
startCheck ==
    /\ pc = "started"
    /\ startResult' = IF isConnected(wsClientThread) THEN "ok" ELSE "failed"
    /\ pc' = "idle"
    /\ last' = Op("start", IF isConnected(wsClientThread) THEN "returned" ELSE "raised",
                  <<>>, NoEvent)
    /\ UNCHANGED <<stopped, wsClientThread, l3OBookSync, retry, caller, iter,
                   applied, conn, hStopped>>
    /\ UNCHANGED workerFields

\* Client.stop
stop ==
    /\ IF wsClientThread # 0
       THEN /\ stopped' = TRUE
            /\ wstate' = [wstate EXCEPT ![wsClientThread] = stopClient(@)]
       ELSE UNCHANGED <<stopped, wstate>>
    /\ last' = Op("stop", "returned", <<>>, NoEvent)
    /\ UNCHANGED <<wsClientThread, l3OBookSync, pc, retry, caller, iter, applied,
                   startResult, conn, hStopped>>
    /\ UNCHANGED <<queue, wsLastSeq, exSeq, nPushed>>

\* Client.eof
eof == stopped

Worker ==
    \E w \in Workers :
        \/ onOpened(w)
        \/ onConnectionRefused(w)
        \/ onClosed(w)
        \/ onDisconnectionDetected(w)
        \/ runReturns(w)
        \/ onError(w)
        \/ \E m \in FeedMessages, seq \in 1..MaxSeq :
              onOrderMessage(w, m.kind, m.oid, seq)

Next ==
    \/ Worker
    \/ start
    \/ stop
    \/ dispatchEmpty
    \/ dispatchConnected
    \/ dispatchDisconnected
    \/ dispatchOrderEvent
    \/ dispatchSeqNrMismatch
    \/ dispatchInvalid
    \/ joinReturns
    \/ onDisconnectedCheck
    \/ connectWSLaunch
    \/ connectWSWaited
    \/ connectWSDecide
    \/ startCheck

Spec == Init /\ [][Next]_vars

\* ---- properties ----------------------------------------------------------

\* the step hands an order event to the book
HandsOver == applied' # applied

\* the event the caller's thread takes next
NextEvent == Head(queue[wsClientThread])

\* C1: for every connection, by the time the first order event of that
\* connection is handed to the book the Client has made exactly one snapshot
\* fetch and exactly one snapshot load for that connection.
C1_SeedBeforeApply == conn.applied => (conn.fetch = 1 /\ conn.load = 1)

\* C2: the order events handed to the book are handed over in the order the
\* workers pushed them (eids number the pushes), none of them twice.
C2_OrderedAtMostOnce ==
    \A i, j \in 1..Len(applied) : i < j => applied[i] < applied[j]

\* two order events were handed to the book
C2_Witness == Len(applied) >= 2

\* C3: an order event changes the book only if its sequence number is
\* greater than the book's, and then the book takes the event's sequence
\* number; an event whose sequence number is not greater leaves the book as
\* it is.
C3_StaleDiscarded ==
    [][HandsOver =>
         /\ (NextEvent.seq <= l3OBookSync.sequence => l3OBookSync' = l3OBookSync)
         /\ (l3OBookSync' # l3OBookSync =>
                /\ NextEvent.seq > l3OBookSync.sequence
                /\ l3OBookSync'.sequence = NextEvent.seq)]_vars

\* an order event no newer than the book was just handed over and discarded
C3_Witness ==
    /\ last.op = "dispatch"
    /\ last.trace = <<"orderEvent", "apply">>
    /\ last.ev.kind = ORDER_OPEN
    /\ last.ev.seq <= l3OBookSync.sequence

\* the step creates a worker
Launches == wsClientThread' # wsClientThread

\* C4: the first worker __onDisconnected launches is launched only once the
\* old worker's thread has ended, and with retry enabled; and when __stopped
\* is set as the join returns, __onDisconnected returns without launching one.
C4_JoinThenRelaunch ==
    [][/\ (Launches /\ caller = "dispatch" /\ iter = 0) =>
            (~is_alive(wsClientThread) /\ retry)
       /\ (pc = "joined" /\ stopped) =>
            (pc' \in {"joined", "idle"} /\ ~Launches)]_vars

\* __onDisconnected has joined the old worker and launched a new one
C4_Witness ==
    /\ caller = "dispatch"
    /\ pc = "wait"
    /\ iter = 1
    /\ ~is_alive(wsClientThread - 1)

\* C5: once stop() was called while the retry loop of __onDisconnected is
\* running, the loop launches no further worker.
C5_StopEndsRetry ==
    [][(stopped /\ caller = "dispatch" /\ iter >= 1) => ~Launches]_vars

\* stopClient() was called on the worker
toldToTerminate(w) == wstate[w] \notin {"unborn", "connecting", "connected"}

\* C6: stop() on a started client sets __stopped and tells the worker to
\* terminate; an __onDisconnected that begins when __stopped is set launches
\* no worker and returns after the join; and a stop() that follows a stop(),
\* or that finds __stopped set and the worker told to terminate, changes
\* nothing.
C6_StopHolds ==
    [][/\ (last'.op = "stop" /\ wsClientThread # 0) =>
            (stopped' /\ toldToTerminate(wsClientThread)')
       /\ hStopped => ~Launches
       /\ (hStopped /\ pc = "joined") => pc' \in {"joined", "idle"}
       /\ (last.op = "stop" /\ last'.op = "stop") => UNCHANGED vars
       /\ (last'.op = "stop" /\ stopped /\ toldToTerminate(wsClientThread)) =>
            UNCHANGED <<stopped, wsClientThread, l3OBookSync, wstate, queue, pc,
                        retry, caller, iter, applied, startResult, conn, hStopped>>]_vars

\* stop() was called, then dispatch() took a disconnect event and joined the
\* worker
C6_Witness == hStopped /\ stopped /\ pc = "joined" /\ toldToTerminate(wsClientThread)

\* C7: whatever state the Client is in, after stop() eof() returns true.
C7_StopReachesStopped == last.op = "stop" => eof

\* C8: start() launches one worker and no more; it returns normally only if
\* that worker connected, and it raises if the worker ended without
\* connecting.
C8_StartFailsFast ==
    /\ caller = "start" => iter <= 1
    /\ startResult # "none" => (caller = "start" => iter = 1)
    /\ startResult = "ok" => wstate[1] \in {"connected", "closing", "closed", "dead"}
    /\ (startResult # "none" /\ wstate[1] = "refused") => startResult = "failed"
    /\ (last.op = "start" /\ last.ret = "returned") => isConnected(1)
    /\ (last.op = "start" /\ last.ret \in {"returned", "raised"}) =>
         (wsClientThread = 1 /\ \A w \in Workers \ {1} : wstate[w] = "unborn")

\* start() has raised: its worker ended without connecting
C8_Witness == startResult = "failed" /\ wstate[1] = "refused" /\ wsClientThread = 1

\* the queues that lose events in the step
Shrunk == {w \in Workers : Len(queue'[w]) < Len(queue[w])}

\* C9: a call of dispatch() takes at most one event from the queue, and it
\* takes it first; it returns True when a handler ran for the event and False
\* when the queue was empty.
C9_OneEventPerCall ==
    [][/\ Cardinality(Shrunk) <= 1
       /\ \A w \in Shrunk : queue'[w] = Tail(queue[w]) /\ pc = "idle"
       /\ last'.op \in {"dispatch", "return"} =>
            /\ last'.ret = "true" => last'.ev.kind \notin {0, ERROR}
            /\ last'.ev = NoEvent => last'.ret = "false" /\ Shrunk = {}
            /\ last'.ev.kind \notin {0, ERROR} => last'.ret \in {"true", "raised", "pending"}]_vars

\* dispatch() found the queue empty and returned False
C9_Witness == last.op = "dispatch" /\ last.ret = "false" /\ last.ev = NoEvent

\* C10: for an order event dispatch() emits the order event, then hands the
\* event to the book, then emits the book event if and only if the book
\* changed.
C10_NotifyApplyNotify ==
    [][(last'.op = "dispatch" /\ last'.ev.kind \in OrderKinds) =>
         /\ last'.trace \in {<<"orderEvent", "apply">>, <<"orderEvent", "apply", "bookEvent">>}
         /\ Len(last'.trace) = 3 <=> l3OBookSync' # l3OBookSync]_vars

\* the order events waiting in the queue of worker w
orderEventsIn(w) == {i \in 1..Len(queue[w]) : queue[w][i].kind \in OrderKinds}

\* C11: for a client that was started and not stopped, every order event a
\* worker pushed and dispatch() has not yet taken (and notified) waits in the
\* queue of the current worker, the only queue dispatch() reads: none is left
\* behind in the queue of a worker the Client has replaced, where no later
\* dispatch() can reach it.
C11_EveryOrderNotified ==
    (startResult = "ok" /\ ~stopped) =>
        \A w \in Workers : orderEventsIn(w) # {} => w = wsClientThread

\* the book that holds exactly the level 3 book sn
bookOf(sn) == [loaded |-> TRUE, sequence |-> sn.sequence, orders |-> sn.orders]

\* the step is a dispatch() that takes an event of one of the kinds
Dispatches(kinds) == last'.op = "dispatch" /\ last'.ev.kind \in kinds

\* C12 (as amended): a dispatch() that takes a sequence mismatch event, like
\* one that takes a connected event, makes one snapshot fetch; when the fetch
\* succeeds it makes one load, after which the book is the snapshot and
\* nothing else; when the fetch fails it makes no load and the book stays as
\* it was; either way the worker, the worker the Client holds and __stopped
\* stay as they were.
C12_MismatchReseeds ==
    [][Dispatches({SEQ_NR_MISMATCH, CONNECTED}) =>
         /\ NextEvent.kind = last'.ev.kind
         /\ \/ /\ last'.trace = <<"fetch", "load">>
               /\ l3OBookSync' = bookOf(last'.snapshot)
            \/ /\ last'.trace = <<"fetch", "raise">>
               /\ l3OBookSync' = l3OBookSync
         /\ UNCHANGED <<wstate, wsClientThread, stopped, pc>>]_vars

\* a sequence mismatch event was taken and a loaded book was replaced by a
\* different snapshot, the worker still connected
C12_Witness ==
    /\ last.op = "dispatch"
    /\ last.ev.kind = SEQ_NR_MISMATCH
    /\ last.trace = <<"fetch", "load">>
    /\ last.prior.loaded
    /\ last.prior # l3OBookSync
    /\ wstate[wsClientThread] = "connected"

\* C12 (as stated): every dispatch() that takes a sequence mismatch event
\* makes one fetch and one load.
C12_AlwaysLoads ==
    (last.op = "dispatch" /\ last.ev.kind = SEQ_NR_MISMATCH) =>
        last.trace = <<"fetch", "load">>

\* C13: after a dispatch() whose snapshot fetch failed the Client holds
\* exactly the book it held before (no book, if it held none), and every
\* dispatch() that takes a connected or a sequence mismatch event begins with
\* a snapshot fetch, whatever became of the fetches before it.
C13_FailedFetchKeepsBook ==
    /\ (last.op = "dispatch" /\ last.trace = <<"fetch", "raise">>) =>
         l3OBookSync = last.prior
    /\ (last.op = "dispatch" /\ last.ev.kind \in {CONNECTED, SEQ_NR_MISMATCH}) =>
         (Len(last.trace) = 2 /\ last.trace[1] = "fetch")

\* a fetch of this connection failed, and the sequence mismatch event that
\* came next was answered with a new fetch, which loaded the book
C13_Witness ==
    /\ last.op = "dispatch"
    /\ last.ev.kind = SEQ_NR_MISMATCH
    /\ last.trace = <<"fetch", "load">>
    /\ ~conn.applied
    /\ conn.fetch = 2
    /\ conn.load = 1

\* C14: once start() has returned normally no call of dispatch() ends with
\* an exception.
C14_DispatchNeverFails ==
    startResult = "ok" => ~(last.op = "dispatch" /\ last.ret = "raised")

\* the workers whose state or queue the step changes
Touched == {w \in Workers : wstate'[w] # wstate[w] \/ queue'[w] # queue[w]}

\* the step puts an event into a queue or moves a worker on, and is not the
\* Client creating or stopping a worker
WorkerActs ==
    /\ \/ \E w \in Workers : Len(queue'[w]) > Len(queue[w])
       \/ wstate' # wstate
    /\ last'.op \notin {"launch", "stop"}

\* C15: the book changes, an event is handed to the book and notifications
\* are emitted only in a step of dispatch(), which takes an event from the
\* current worker's queue and moves no worker; and a step in which a worker
\* pushes an event or its connection or thread moves on touches that one
\* worker only and leaves the book, the notifications and the Client's
\* fields as they were.
C15_OnlyDispatchWrites ==
    [][/\ (l3OBookSync' # l3OBookSync \/ applied' # applied \/ last'.trace # <<>>) =>
            /\ last'.op = "dispatch"
            /\ pc = "idle"
            /\ queue' = [queue EXCEPT ![wsClientThread] = Tail(@)]
            /\ wstate' = wstate
       /\ WorkerActs =>
            /\ Cardinality(Touched) = 1
            /\ last'.trace = <<>>
            /\ UNCHANGED <<l3OBookSync, applied, stopped, wsClientThread, pc>>]_vars

\* a worker has just pushed an order event while the Client holds a book
C15_Witness ==
    /\ last = NoLast
    /\ l3OBookSync.loaded
    /\ orderEventsIn(wsClientThread) # {}
    /\ wstate[wsClientThread] = "connected"

\* C16: after a dispatch() that loaded the snapshot its fetch returned, the
\* book holds the orders of that snapshot and no other, and the snapshot's
\* sequence number, whatever book the Client held before.
C16_LoadReplacesBook ==
    (last.op = "dispatch" /\ last.trace = <<"fetch", "load">>) =>
        /\ l3OBookSync.loaded
        /\ l3OBookSync.orders = last.snapshot.orders
        /\ l3OBookSync.sequence = last.snapshot.sequence

\* a snapshot without orders was loaded over a book that held an order and
\* another sequence number
C16_Witness ==
    /\ last.op = "dispatch"
    /\ last.trace = <<"fetch", "load">>
    /\ last.prior.loaded
    /\ last.prior.orders # {}
    /\ last.snapshot.orders = {}
    /\ last.prior.sequence # last.snapshot.sequence

\* dispatch() took a done, match or change event for an order the loaded
\* book did not hold
UnknownIdTaken ==
    /\ last.op = "dispatch"
    /\ last.ev.kind \in {ORDER_DONE, ORDER_MATCH, ORDER_CHANGE}
    /\ last.prior.loaded
    /\ last.ev.oid \notin last.prior.orders

\* C17: a done, match or change event for an order id the book does not hold
\* leaves the book exactly as it was (orders and sequence number); the call
\* emits the order event, hands the event to the book, emits no book event,
\* makes no snapshot fetch and returns True.
C17_UnknownIdIgnored ==
    UnknownIdTaken =>
        /\ l3OBookSync = last.prior
        /\ last.trace = <<"orderEvent", "apply">>
        /\ last.snapshot = NoSnapshot
        /\ last.ret = "true"

\* a done event newer than the book, for an order the book does not hold,
\* was taken while the book held another order
C17_Witness ==
    /\ UnknownIdTaken
    /\ last.ev.kind = ORDER_DONE
    /\ last.ev.seq > last.prior.sequence
    /\ last.prior.orders # {}

\* a call of dispatch() that takes the event waiting at the head of the queue
dispatchTakes ==
    \/ dispatchConnected
    \/ dispatchDisconnected
    \/ dispatchOrderEvent
    \/ dispatchSeqNrMismatch
    \/ dispatchInvalid

\* C18: a dispatch() that takes an ERROR event removes that event and nothing
\* else from the queue, leaves the book, the workers, the worker the Client
\* holds and __stopped as they were, emits nothing, hands nothing to the
\* book and returns False without raising; and when it has returned, a
\* further dispatch() can take the event that followed the ERROR event.
C18_InvalidDropped ==
    /\ [][Dispatches({ERROR}) =>
            /\ NextEvent.kind = ERROR
            /\ queue' = [queue EXCEPT ![wsClientThread] = Tail(@)]
            /\ UNCHANGED <<l3OBookSync, wstate, stopped, wsClientThread, applied, pc>>
            /\ last'.trace = <<>>
            /\ last'.ret = "false"]_vars
    /\ []((last.op = "dispatch" /\ last.ev.kind = ERROR /\ queue[wsClientThread] # <<>>)
            => ENABLED dispatchTakes)

\* an ERROR event was dropped and an order event waits behind it
C18_Witness ==
    /\ last.op = "dispatch"
    /\ last.ev.kind = ERROR
    /\ last.ret = "false"
    /\ queue[wsClientThread] # <<>>
    /\ Head(queue[wsClientThread]).kind \in OrderKinds

\* C19: for a client whose start() has returned, at most one worker thread
\* is alive at any time.
C19_OneWorkerAlive ==
    startResult = "ok" => Cardinality({w \in Workers : is_alive(w)}) <= 1

\* C20: events are taken from the queue of the current worker only; the
\* worker a launch makes current is a new one, later than every worker
\* before it, whose queue is empty; and an __onDisconnected that reconnects
\* returns to dispatch() only after it has made a new worker current.  So
\* the DISCONNECTED event that set off a reconnect is the last event ever
\* taken from its worker's queue, and a second DISCONNECTED event of the same
\* worker sets off nothing.
C20_OneReconnectPerDisconnect ==
    [][/\ \A w \in Shrunk : w = wsClientThread
       /\ Launches =>
            /\ wsClientThread' > wsClientThread
            /\ wstate[wsClientThread'] = "unborn"
            /\ queue[wsClientThread'] = <<>>
       /\ (caller = "dispatch" /\ pc \in {"launch", "wait", "waited"} /\ pc' = "idle") =>
            iter >= 1]_vars

\* after a reconnect dispatch() is at work on the new worker's queue while
\* the second DISCONNECTED event of the old worker still waits in the old
\* worker's queue
C20_Witness ==
    /\ startResult = "ok"
    /\ ~stopped
    /\ pc = "idle"
    /\ wsClientThread = 2
    /\ queue[1] = <<Event(DISCONNECTED, 0, 0, 0)>>
    /\ last.op = "dispatch"
    /\ last.ev.kind \in OrderKinds

====
